---- MODULE Spec2Model ----
(***************************************************************************)
(* Model of the dog-bark detection pipeline:                               *)
(*   AudioProcessor.process_in_chunks   (audio_processor.py)  chunk        *)
(*                                       scheduler, a Python generator     *)
(*   DogBarkDetector.detect_in_waveform (detector.py)  event extractor     *)
(*   DogBarkDetector.merge_detections   (detector.py)  event merger        *)
(*   process_audio_file                 (detect_bark.py)  the driver loop  *)
(*                                                                         *)
(* Time is an integer number of centiseconds (1 s = 100), so that the      *)
(* scorer's hop (0.48 s), its frame (0.96 s) and the driver's overlap      *)
(* (2.0 s) are all whole numbers.  Python floats are modelled as exact     *)
(* numbers: rounding of float additions is outside the model.              *)
(* Probabilities are integers 0..MaxScore standing for [0, 1].             *)
(***************************************************************************)
EXTENDS Integers, Sequences, FiniteSets, TLC

VARIABLES
    caller,                \* the entry point: "iterate" (a plain loop over the generator),
                           \* "process_audio_file", "detect_in_waveform",
                           \* "merge_detections" or "get_detection_summary"
    total_duration,        \* get_audio_duration(file_path)
    chunk_duration,        \* process_in_chunks argument
    overlap,               \* process_in_chunks argument
    confidence_threshold,  \* DogBarkDetector.confidence_threshold
    merge_gap,             \* merge_detections argument
    no_merge,              \* process_audio_file argument
    loaded_rate,           \* AudioProcessor.sample_rate: the rate buffers are loaded at
    sample_rate,           \* detect_in_waveform argument (16000 when left out)
    gen,                   \* generator position: "created" | "suspended" | "finished" | "idle"
    offset,                \* generator local `offset`
    chunks,                \* the (start_time, end_time) pairs yielded so far, in order
    scores,                \* per-frame scores of the dog classes returned by the model
    detections,            \* the list `detections` of detect_in_waveform / of the loop body
    all_detections,        \* the accumulated list (the input list of merge_detections
                           \* and of get_detection_summary)
    provenance,            \* history: for each accumulated event, its chunk and the
                           \* event as detect_in_waveform returned it
    returned,              \* the list returned by merge_detections / process_audio_file
    remerged,              \* the list returned by merge_detections called on `returned`
    summary,               \* the dictionary returned by get_detection_summary
    trace,                 \* history: the operations performed so far, in order
    heap,                  \* the dictionary objects merge_detections works on, by identity
    input_refs,            \* the caller's list: the identities of its events, in order
    merged_refs,           \* the list merge_detections returns: identities of its episodes
    url,                   \* the argument of extract_file_id / download_if_gdrive
    file_id,               \* the value returned by extract_file_id
    files,                 \* the file system: path |-> what the file holds
    result,                \* the value returned by download_if_gdrive
    calls,                 \* number of download_if_gdrive calls started so far
    pc                     \* position of the caller

cfgVars == <<caller, total_duration, chunk_duration, overlap,
             confidence_threshold, merge_gap, no_merge, loaded_rate, sample_rate>>

genVars == <<gen, offset, chunks>>

detVars == <<scores, detections>>

accVars == <<all_detections, provenance, returned>>

auxVars == <<remerged, summary>>

refVars == <<heap, input_refs, merged_refs>>

gdVars == <<url, file_id, files, result, calls>>

vars == <<cfgVars, genVars, detVars, accVars, auxVars, refVars, gdVars, trace, pc>>

\* no object store is in use
NoRefs ==
    /\ heap = <<>>
    /\ input_refs = <<>>
    /\ merged_refs = <<>>

\* no download is in use
NoDownload ==
    /\ url = <<>>
    /\ file_id = <<>>
    /\ files = <<>>
    /\ result = <<>>
    /\ calls = 0

\* one entry of the history: the operation and the chunk (counted from 1) it is about
Step(op, k) == [op |-> op, chunk |-> k]

(* ---------------------------------------------------------------------- *)
(* Bounds of the model                                                     *)
(* ---------------------------------------------------------------------- *)
MaxDuration == 6        \* recordings last 0..MaxDuration seconds
MaxChunkDuration == 4   \* chunk_duration ranges over -1..MaxChunkDuration seconds
MaxOverlap == 3         \* overlap ranges over 0..MaxOverlap seconds
MaxChunks == 8          \* cap on the chunks one generator may yield
MaxScore == 2           \* probabilities are 0..MaxScore, MaxScore standing for 1.0
MaxFrames == 2          \* the model returns 0..MaxFrames frames for a buffer
MaxEvents == 3          \* merge_detections is given lists of 0..MaxEvents events
MaxIdLen == 2           \* the file IDs tried have 1..MaxIdLen characters
MaxCalls == 2           \* download_if_gdrive is called 1..MaxCalls times for one URL

Sec(n) == n * 100

Min(a, b) == IF a < b THEN a ELSE b

Max(a, b) == IF a > b THEN a ELSE b

Last(s) == s[Len(s)]

(* ---------------------------------------------------------------------- *)
(* Chunk scheduler: AudioProcessor.process_in_chunks                       *)
(* ---------------------------------------------------------------------- *)

\* faulty variant: the last chunk is not truncated at the end of the recording
CurrentChunkDurationUntruncated(off) == chunk_duration

\* `current_chunk_duration = min(chunk_duration, total_duration - offset)`
CurrentChunkDuration(off) == Min(chunk_duration, total_duration - off)

\* the triple yielded at `off` (the audio itself is scored separately)
ChunkAt(off) ==
    [start_time |-> off, end_time |-> off + CurrentChunkDuration(off)]

\* faulty variant: the overlap is added instead of subtracted
NextOffsetPlusOverlap(off) == off + chunk_duration + overlap

\* faulty variant: the offset is not advanced
NextOffsetStuck(off) == off

\* faulty variant: the overlap is forgotten
NextOffsetNoOverlap(off) == off + chunk_duration

\* `offset += chunk_duration - overlap`
NextOffset(off) == off + chunk_duration - overlap

\* the generator runs from `off` to its next yield, or to its end
\* faulty variant: the while test lets an offset equal to the duration through
RunToYieldInclusive(off) ==
    IF off <= total_duration
    THEN /\ Len(chunks) < MaxChunks
         /\ offset' = off
         /\ chunks' = Append(chunks, ChunkAt(off))
         /\ trace' = Append(trace, Step("yield", Len(chunks) + 1))
         /\ gen' = "suspended"
         /\ pc' = IF caller = "process_audio_file" THEN "score" ELSE "next"
    ELSE /\ offset' = off
         /\ gen' = "finished"
         /\ pc' = IF caller = "process_audio_file" THEN "merge" ELSE "done"
         /\ UNCHANGED <<chunks, trace>>

RunToYield(off) ==
    IF off < total_duration
    THEN /\ Len(chunks) < MaxChunks
         /\ offset' = off
         /\ chunks' = Append(chunks, ChunkAt(off))
         /\ trace' = Append(trace, Step("yield", Len(chunks) + 1))
         /\ gen' = "suspended"
         /\ pc' = IF caller = "process_audio_file" THEN "score" ELSE "next"
    ELSE /\ offset' = off
         /\ gen' = "finished"
         /\ pc' = IF caller = "process_audio_file" THEN "merge" ELSE "done"
         /\ UNCHANGED <<chunks, trace>>

\* first next(): `offset = 0.0`, then the while test
GenStart ==
    /\ pc = "next"
    /\ gen = "created"
    /\ RunToYield(0)
    /\ UNCHANGED <<cfgVars, refVars, gdVars, detVars, accVars, auxVars>>

\* a later next(): advance the offset, `if offset >= total_duration: break`,
\* else the while test (true here) and the next yield
GenResume ==
    /\ pc = "next"
    /\ gen = "suspended"
    /\ RunToYield(NextOffset(offset))
    /\ UNCHANGED <<cfgVars, refVars, gdVars, detVars, accVars, auxVars>>

(* ---------------------------------------------------------------------- *)
(* Event extractor: DogBarkDetector.detect_in_waveform                     *)
(* ---------------------------------------------------------------------- *)

\* `hop_duration = 0.48` and `frame_duration = 0.96`, in centiseconds
HopDuration == 48

FrameDuration == 96

\* dog_class_indices after construction: the indices of the dog-related
\* classes, in the order _load_class_names appends them (ascending)
DogClassIndices == <<1, 2>>

DogClasses == {DogClassIndices[k] : k \in 1..Len(DogClassIndices)}

\* `self.class_names[class_idx]`
ClassName(class_idx) == <<"display_name", class_idx>>

\* Python's None in `max_dog_class_idx = None` and `max_dog_class = None`
NoneIndex == 0

NoneName == <<"None">>

\* one pass of `for class_idx in self.dog_class_indices`, from position k on
RECURSIVE MaxDogFrom(_, _, _)
MaxDogFrom(frame_scores, k, best) ==
    IF k > Len(DogClassIndices)
    THEN best
    ELSE LET class_idx == DogClassIndices[k] IN
         MaxDogFrom(frame_scores, k + 1,
            IF frame_scores[class_idx] > best.max_dog_score
            THEN [max_dog_score |-> frame_scores[class_idx],
                  max_dog_class |-> ClassName(class_idx),
                  max_dog_class_idx |-> class_idx]
            ELSE best)

\* the three max_dog_* locals after the inner loop of one frame
MaxDog(frame_scores) ==
    MaxDogFrom(frame_scores, 1,
        [max_dog_score |-> 0, max_dog_class |-> NoneName,
         max_dog_class_idx |-> NoneIndex])

\* faulty variant: the threshold test is strict
MeetsThresholdStrict(max_dog_score, threshold) == max_dog_score > threshold

\* `if max_dog_score >= self.confidence_threshold`
MeetsThreshold(max_dog_score, threshold) == max_dog_score >= threshold

\* the dictionary appended for frame `frame_idx` (counted from 0)
\* faulty variant: the event ends where it starts
FrameEventZeroLength(frame_idx, best) ==
    [start_time |-> frame_idx * HopDuration,
     end_time |-> frame_idx * HopDuration,
     confidence |-> best.max_dog_score,
     class_name |-> best.max_dog_class,
     class_index |-> best.max_dog_class_idx]

FrameEvent(frame_idx, best) ==
    [start_time |-> frame_idx * HopDuration,
     end_time |-> frame_idx * HopDuration + FrameDuration,
     confidence |-> best.max_dog_score,
     class_name |-> best.max_dog_class,
     class_index |-> best.max_dog_class_idx]

\* `for frame_idx, frame_scores in enumerate(scores.numpy())`, from frame k on
RECURSIVE DetectFrom(_, _, _, _)
DetectFrom(sc, k, threshold, acc) ==
    IF k > Len(sc)
    THEN acc
    ELSE LET best == MaxDog(sc[k]) IN
         DetectFrom(sc, k + 1, threshold,
            IF MeetsThreshold(best.max_dog_score, threshold)
            THEN Append(acc, FrameEvent(k - 1, best))
            ELSE acc)

\* the rate YAMNet is built for
ScorerRate == 16000

\* the rates a buffer may be loaded at or declared to have
SampleRates == {8000, ScorerRate, 44100}

\* `if sample_rate != 16000: raise ValueError`, negated: the test is on the
\* argument, the buffer itself carries no rate
RateAccepted(rate) == rate = ScorerRate

\* detect_in_waveform on a buffer for which the model returns the scores `sc`
DetectInWaveform(sc, threshold) == DetectFrom(sc, 1, threshold, <<>>)

\* a direct call of detect_in_waveform
CallDetect ==
    /\ caller = "detect_in_waveform"
    /\ pc = "score"
    /\ IF RateAccepted(sample_rate)
       THEN /\ detections' = DetectInWaveform(scores, confidence_threshold)
            /\ trace' = Append(trace, Step("model", 1))
            /\ pc' = "done"
       ELSE /\ pc' = "raised"
            /\ UNCHANGED <<detections, trace>>
    /\ UNCHANGED <<cfgVars, refVars, gdVars, genVars, scores, accVars, auxVars>>

(* ---------------------------------------------------------------------- *)
(* Event merger: DogBarkDetector.merge_detections                          *)
(* ---------------------------------------------------------------------- *)

\* insert `d` into a list sorted by start_time, after every element whose
\* start_time is not larger: sorted() is stable
RECURSIVE InsertByStart(_, _)
InsertByStart(sorted, d) ==
    IF sorted = <<>>
    THEN <<d>>
    ELSE IF Last(sorted).start_time <= d.start_time
         THEN Append(sorted, d)
         ELSE Append(InsertByStart(SubSeq(sorted, 1, Len(sorted) - 1), d),
                     Last(sorted))

RECURSIVE SortFrom(_, _, _)
SortFrom(dets, k, sorted) ==
    IF k > Len(dets)
    THEN sorted
    ELSE SortFrom(dets, k + 1, InsertByStart(sorted, dets[k]))

\* faulty variant: the list is not sorted
SortedByStartSkipped(dets) == dets

\* `sorted(detections, key=lambda x: x['start_time'])`
SortedByStart(dets) == SortFrom(dets, 1, <<>>)

\* faulty variant: the gap test is strict
GapSmallEnoughStrict(detection, current, gap) ==
    detection.start_time - current.end_time < gap

\* `detection['start_time'] - current['end_time'] <= merge_gap`
GapSmallEnough(detection, current, gap) ==
    detection.start_time - current.end_time <= gap

\* faulty variant: the absorbed event leaves no mark on the episode
AbsorbNothing(current, detection) == current

\* faulty variant: the episode keeps the end_time of its first event
AbsorbEndKept(current, detection) ==
    [current EXCEPT
        !.confidence = Max(current.confidence, detection.confidence)]

\* faulty variant: the episode takes the label of the absorbed event
AbsorbLabelTaken(current, detection) ==
    [current EXCEPT
        !.end_time = Max(current.end_time, detection.end_time),
        !.confidence = Max(current.confidence, detection.confidence),
        !.class_name = detection.class_name,
        !.class_index = detection.class_index]

\* the two assignments that absorb `detection` into `current`
Absorb(current, detection) ==
    [current EXCEPT
        !.end_time = Max(current.end_time, detection.end_time),
        !.confidence = Max(current.confidence, detection.confidence)]

\* faulty variant: the final `merged.append(current)` is missing
RECURSIVE MergeFromLastDropped(_, _, _, _, _)
MergeFromLastDropped(sorted, k, current, merged, gap) ==
    IF k > Len(sorted)
    THEN merged
    ELSE IF GapSmallEnough(sorted[k], current, gap)
         THEN MergeFromLastDropped(sorted, k + 1, Absorb(current, sorted[k]),
                                   merged, gap)
         ELSE MergeFromLastDropped(sorted, k + 1, sorted[k],
                                   Append(merged, current), gap)

\* `for detection in sorted_detections[1:]`, from position k on, and the
\* final `merged.append(current)`
RECURSIVE MergeFrom(_, _, _, _, _)
MergeFrom(sorted, k, current, merged, gap) ==
    IF k > Len(sorted)
    THEN Append(merged, current)
    ELSE IF GapSmallEnough(sorted[k], current, gap)
         THEN MergeFrom(sorted, k + 1, Absorb(current, sorted[k]), merged, gap)
         ELSE MergeFrom(sorted, k + 1, sorted[k], Append(merged, current), gap)

\* faulty variant: an empty list gives None instead of an empty list
MergeDetectionsEmptyAsNone(dets, gap) ==
    IF dets = <<>>
    THEN NoneName
    ELSE LET sorted_detections == SortedByStart(dets) IN
         MergeFrom(sorted_detections, 2, sorted_detections[1], <<>>, gap)

MergeDetections(dets, gap) ==
    IF dets = <<>>
    THEN <<>>
    ELSE LET sorted_detections == SortedByStart(dets) IN
         MergeFrom(sorted_detections, 2, sorted_detections[1], <<>>, gap)

\* a direct call of merge_detections
CallMerge ==
    /\ caller = "merge_detections"
    /\ pc = "merge"
    /\ returned' = MergeDetections(all_detections, merge_gap)
    /\ pc' = "done"
    /\ UNCHANGED <<cfgVars, refVars, gdVars, genVars, detVars, all_detections, provenance,
                   auxVars, trace>>

\* merge_detections called again, on the list it returned, with the same gap
CallMergeAgain ==
    /\ caller = "merge_detections"
    /\ pc = "done"
    /\ remerged' = MergeDetections(returned, merge_gap)
    /\ pc' = "remerged"
    /\ UNCHANGED <<cfgVars, refVars, gdVars, genVars, detVars, accVars, summary, trace>>

\* the list with the events at positions i and i + 1 exchanged
SwapAdjacent(dets, i) ==
    [j \in 1..Len(dets) |->
        IF j = i THEN dets[i + 1] ELSE IF j = i + 1 THEN dets[i] ELSE dets[j]]

\* merge_detections called on the list and on each of the lists that differ
\* from it by the exchange of two neighbours (these exchanges generate every
\* permutation); remerged[i] is the result for the exchange at i
CallMergeReordered ==
    /\ caller = "merge_detections"
    /\ pc = "reorder"
    /\ returned' = MergeDetections(all_detections, merge_gap)
    /\ remerged' = [i \in 1..(Len(all_detections) - 1) |->
                        MergeDetections(SwapAdjacent(all_detections, i), merge_gap)]
    /\ pc' = "done"
    /\ UNCHANGED <<cfgVars, refVars, gdVars, genVars, detVars, all_detections,
                   provenance, summary, trace>>

(* ---------------------------------------------------------------------- *)
(* merge_detections on objects with identity: heap[r] is the dictionary    *)
(* with identity r, a list is a sequence of identities                     *)
(* ---------------------------------------------------------------------- *)

\* faulty variant: the dictionary itself is taken, not a copy of it
CopyAliased(h, ref) == [heap |-> h, ref |-> ref]

\* `dict.copy()`: a new object with the same fields
Copy(h, ref) == [heap |-> Append(h, h[ref]), ref |-> Len(h) + 1]

RECURSIVE InsertRefByStart(_, _, _)
InsertRefByStart(h, sorted, ref) ==
    IF sorted = <<>>
    THEN <<ref>>
    ELSE IF h[Last(sorted)].start_time <= h[ref].start_time
         THEN Append(sorted, ref)
         ELSE Append(InsertRefByStart(h, SubSeq(sorted, 1, Len(sorted) - 1), ref),
                     Last(sorted))

RECURSIVE SortRefsFrom(_, _, _, _)
SortRefsFrom(h, refs, k, sorted) ==
    IF k > Len(refs)
    THEN sorted
    ELSE SortRefsFrom(h, refs, k + 1, InsertRefByStart(h, sorted, refs[k]))

\* `sorted(detections, ...)`: a new list holding the same objects
SortedRefs(h, refs) == SortRefsFrom(h, refs, 1, <<>>)

\* the two assignments to `current[...]`: the object `current` names changes
AbsorbInPlace(h, current, detection) ==
    [h EXCEPT ![current] = Absorb(h[current], h[detection])]

\* the loop and the final append, from position k on
RECURSIVE MergeRefsFrom(_, _, _, _, _, _)
MergeRefsFrom(h, sorted, k, current, merged, gap) ==
    IF k > Len(sorted)
    THEN [heap |-> h, merged |-> Append(merged, current)]
    ELSE IF GapSmallEnough(h[sorted[k]], h[current], gap)
         THEN MergeRefsFrom(AbsorbInPlace(h, current, sorted[k]), sorted, k + 1,
                            current, merged, gap)
         ELSE LET c == Copy(h, sorted[k]) IN
              MergeRefsFrom(c.heap, sorted, k + 1, c.ref,
                            Append(merged, current), gap)

MergeDetectionsRefs(h, refs, gap) ==
    IF refs = <<>>
    THEN [heap |-> h, merged |-> <<>>]
    ELSE LET sorted_detections == SortedRefs(h, refs)
             c == Copy(h, sorted_detections[1])
         IN MergeRefsFrom(c.heap, sorted_detections, 2, c.ref, <<>>, gap)

\* a direct call of merge_detections on the caller's list of objects
CallMergeRefs ==
    /\ caller = "merge_detections"
    /\ pc = "merge_refs"
    /\ \E out \in {MergeDetectionsRefs(heap, input_refs, merge_gap)} :
        /\ heap' = out.heap
        /\ merged_refs' = out.merged
        /\ returned' = [k \in 1..Len(out.merged) |-> out.heap[out.merged[k]]]
    /\ pc' = "done"
    /\ UNCHANGED <<cfgVars, gdVars, genVars, detVars, all_detections, provenance,
                   auxVars, input_refs, trace>>

(* ---------------------------------------------------------------------- *)
(* Summary reducer: DogBarkDetector.get_detection_summary                  *)
(* ---------------------------------------------------------------------- *)

\* a float that is the quotient of two integers, kept exact
Ratio(n, d) == [num |-> n, den |-> d]

\* Python's sum() of a list of numbers
RECURSIVE SumSeq(_)
SumSeq(seq) ==
    IF seq = <<>> THEN 0 ELSE SumSeq(SubSeq(seq, 1, Len(seq) - 1)) + Last(seq)

\* np.mean of a non-empty list
Mean(seq) == Ratio(SumSeq(seq), Len(seq))

\* Python's max() and min() of a non-empty list
RECURSIVE MaxSeq(_)
MaxSeq(seq) ==
    IF Len(seq) = 1 THEN seq[1]
    ELSE Max(MaxSeq(SubSeq(seq, 1, Len(seq) - 1)), Last(seq))

RECURSIVE MinSeq(_)
MinSeq(seq) ==
    IF Len(seq) = 1 THEN seq[1]
    ELSE Min(MinSeq(SubSeq(seq, 1, Len(seq) - 1)), Last(seq))

\* faulty variant: the start_time is not subtracted
DurationOfEndOnly(d) == d.end_time

\* `d['end_time'] - d['start_time']`
DurationOf(d) == d.end_time - d.start_time

\* the dictionary returned for an empty list: it has no avg_duration
EmptySummary ==
    [total_events |-> 0,
     total_duration |-> 0,
     avg_confidence |-> 0,
     max_confidence |-> 0,
     min_confidence |-> 0]

GetDetectionSummary(dets) ==
    IF dets = <<>>
    THEN EmptySummary
    ELSE LET confidences == [i \in 1..Len(dets) |-> dets[i].confidence]
             durations == [i \in 1..Len(dets) |-> DurationOf(dets[i])]
         IN [total_events |-> Len(dets),
             total_duration |-> SumSeq(durations),
             avg_duration |-> Mean(durations),
             avg_confidence |-> Mean(confidences),
             max_confidence |-> MaxSeq(confidences),
             min_confidence |-> MinSeq(confidences)]

\* a direct call of get_detection_summary
CallSummary ==
    /\ caller = "get_detection_summary"
    /\ pc = "summary"
    /\ summary' = GetDetectionSummary(all_detections)
    /\ pc' = "done"
    /\ UNCHANGED <<cfgVars, refVars, gdVars, genVars, detVars, accVars, remerged, trace>>

(* ---------------------------------------------------------------------- *)
(* File IDs: GDriveDownloader.extract_file_id.  A string is a sequence of  *)
(* one-character strings.                                                  *)
(* ---------------------------------------------------------------------- *)

LowercaseLetters ==
    <<"a", "b", "c", "d", "e", "f", "g", "h", "i", "j", "k", "l", "m", "n",
      "o", "p", "q", "r", "s", "t", "u", "v", "w", "x", "y", "z">>

UppercaseLetters ==
    <<"A", "B", "C", "D", "E", "F", "G", "H", "I", "J", "K", "L", "M", "N",
      "O", "P", "Q", "R", "S", "T", "U", "V", "W", "X", "Y", "Z">>

DigitChars == {"0", "1", "2", "3", "4", "5", "6", "7", "8", "9"}

Range(f) == {f[i] : i \in DOMAIN f}

\* the character class [a-zA-Z0-9_-]
IdChars ==
    Range(LowercaseLetters) \cup Range(UppercaseLetters) \cup DigitChars
        \cup {"_", "-"}

\* "https://drive.google.com"
DriveHost ==
    <<"h", "t", "t", "p", "s", ":", "/", "/", "d", "r", "i", "v", "e", ".",
      "g", "o", "o", "g", "l", "e", ".", "c", "o", "m">>

\* "drive.google.com"
DriveDomain ==
    <<"d", "r", "i", "v", "e", ".", "g", "o", "o", "g", "l", "e", ".", "c",
      "o", "m">>

\* a pattern prefix is a sequence of character sets; a literal is a sequence
\* of singletons
Literal(str) == [i \in 1..Len(str) |-> {str[i]}]

\* the three patterns without their group `([a-zA-Z0-9_-]+)`
DRIVE_URL_PATTERNS ==
    << Literal(DriveHost \o <<"/", "f", "i", "l", "e", "/", "d", "/">>),
       Literal(DriveHost \o <<"/", "o", "p", "e", "n", "?", "i", "d", "=">>),
       << {"?", "&"} >> \o Literal(<<"i", "d", "=">>) >>

\* the prefix matches at position p of str and the group can take a character
MatchesAt(prefix, str, p) ==
    /\ p + Len(prefix) <= Len(str)
    /\ \A i \in 1..Len(prefix) : str[p + i - 1] \in prefix[i]
    /\ str[p + Len(prefix)] \in IdChars

\* the end of the longest run of IdChars of str that starts at position q
RECURSIVE RunEnd(_, _)
RunEnd(str, q) ==
    IF q < Len(str) /\ str[q + 1] \in IdChars THEN RunEnd(str, q + 1) ELSE q

\* `re.search(pattern, url)`: the leftmost match; group(1) is greedy
SearchGroup(prefix, str) ==
    LET hits == {p \in 1..Len(str) : MatchesAt(prefix, str, p)} IN
    IF hits = {}
    THEN NoneName
    ELSE LET p == CHOOSE x \in hits : \A y \in hits : x <= y
             q == p + Len(prefix)
         IN SubSeq(str, q, RunEnd(str, q))

AllIdChars(str) == str # <<>> /\ \A i \in 1..Len(str) : str[i] \in IdChars

\* `re.match(r'^[a-zA-Z0-9_-]+$', url)`: `$` matches at the end of the
\* string and also just before a newline that ends the string
MatchesBareId(str) ==
    \/ AllIdChars(str)
    \/ /\ str # <<>>
       /\ Last(str) = "\n"
       /\ AllIdChars(SubSeq(str, 1, Len(str) - 1))

RECURSIVE ExtractFrom(_, _)
ExtractFrom(str, k) ==
    IF k > Len(DRIVE_URL_PATTERNS)
    THEN IF MatchesBareId(str) THEN str ELSE NoneName
    ELSE LET group == SearchGroup(DRIVE_URL_PATTERNS[k], str) IN
         IF group # NoneName THEN group ELSE ExtractFrom(str, k + 1)

extract_file_id(str) == ExtractFrom(str, 1)

\* a direct call of extract_file_id
CallExtract ==
    /\ caller = "extract_file_id"
    /\ pc = "extract"
    /\ file_id' = extract_file_id(url)
    /\ pc' = "done"
    /\ UNCHANGED <<cfgVars, refVars, genVars, detVars, accVars, auxVars, trace,
                   url, files, result, calls>>

(* ---------------------------------------------------------------------- *)
(* Downloads: GDriveDownloader.download_file and download_if_gdrive.       *)
(* A file holds "partial" while it is being written, "complete" after the  *)
(* last chunk was written.                                                 *)
(* ---------------------------------------------------------------------- *)

\* `str.lower()` on one character and on a string
LowerChar(c) ==
    IF \E i \in 1..Len(UppercaseLetters) : UppercaseLetters[i] = c
    THEN LowercaseLetters[CHOOSE i \in 1..Len(UppercaseLetters) : UppercaseLetters[i] = c]
    ELSE c

Lower(str) == [i \in 1..Len(str) |-> LowerChar(str[i])]

\* `sub in str`
Contains(sub, str) ==
    \E p \in 0..(Len(str) - Len(sub)) :
        \A i \in 1..Len(sub) : str[p + i] = sub[i]

\* `'drive.google.com' in url.lower()`
is_gdrive_url(str) == Contains(DriveDomain, Lower(str))

\* the text an f-string puts in for a file ID: "None" for None
Formatted(id) == IF id = NoneName THEN <<"N", "o", "n", "e">> ELSE id

\* `f"gdrive_{file_id}.audio"` (inside output_dir)
OutputPath(id) ==
    <<"g", "d", "r", "i", "v", "e", "_">> \o Formatted(id)
        \o <<".", "a", "u", "d", "i", "o">>

\* faulty variant: the target is never found
ExistsNever(fs, path) == FALSE

\* `os.path.exists(path)`
Exists(fs, path) == path \in DOMAIN fs

\* faulty variant: the partial file is left where it is
RemoveSkipped(fs, path) == fs

\* `os.remove(path)`
Remove(fs, path) == [p \in DOMAIN fs \ {path} |-> fs[p]]

\* the file at path is created or truncated and then holds `content`
Written(fs, path, content) ==
    [p \in DOMAIN fs \cup {path} |-> IF p = path THEN content ELSE fs[p]]

\* the path download_file writes to: the one download_if_gdrive makes up
output_path == OutputPath(extract_file_id(url))

\* download_if_gdrive up to the return or to the call of download_file
CallDownloadIfGdrive ==
    /\ caller = "download_if_gdrive"
    /\ pc = "call"
    /\ IF ~is_gdrive_url(url)
       THEN /\ result' = url
            /\ trace' = Append(trace, Step("local", calls))
            /\ pc' = "returned"
       ELSE IF Exists(files, output_path)
            THEN /\ result' = output_path
                 /\ trace' = Append(trace, Step("shortcut", calls))
                 /\ pc' = "returned"
            ELSE /\ trace' = Append(trace, Step("start", calls))
                 /\ pc' = "download"
                 /\ UNCHANGED result
    /\ UNCHANGED <<cfgVars, refVars, genVars, detVars, accVars, auxVars,
                   url, file_id, files, calls>>

\* download_file: `file_id = self.extract_file_id(url_or_id)` and the
\* ValueError raised when there is none
DownloadExtract ==
    /\ caller \in {"download_if_gdrive", "download_file"}
    /\ pc = "download"
    /\ file_id' = extract_file_id(url)
    /\ IF extract_file_id(url) = NoneName \/ extract_file_id(url) = <<>>
       THEN /\ trace' = Append(trace, Step("value_error", calls))
            /\ pc' = "raised"
       ELSE /\ pc' = "request"
            /\ UNCHANGED trace
    /\ UNCHANGED <<cfgVars, refVars, genVars, detVars, accVars, auxVars,
                   url, files, result, calls>>

\* `self.session.get(download_url, stream=True)` and the reading of
\* response.text: the request fails, or is answered by the virus-scan
\* warning page, or by the response that is then checked
Request ==
    /\ caller \in {"download_if_gdrive", "download_file"}
    /\ pc \in {"request", "confirm"}
    /\ trace' = Append(trace, Step("request", calls))
    /\ \E outcome \in {"error", "warning", "response"} :
        /\ outcome = "warning" => pc = "request"
        /\ pc' = CASE outcome = "error" -> "cleanup"
                   [] outcome = "warning" -> "confirm"
                   [] OTHER -> "status"
    /\ UNCHANGED <<cfgVars, refVars, genVars, detVars, accVars, auxVars, gdVars>>

\* `if response.status_code != 200: raise Exception`
CheckStatus ==
    /\ caller \in {"download_if_gdrive", "download_file"}
    /\ pc = "status"
    /\ \E ok \in BOOLEAN : pc' = IF ok THEN "open" ELSE "cleanup"
    /\ UNCHANGED <<cfgVars, refVars, genVars, detVars, accVars, auxVars, gdVars,
                   trace>>

\* os.makedirs and `open(output_path, 'wb')`: either raises, or the file
\* exists from now on, empty
OpenOutput ==
    /\ caller \in {"download_if_gdrive", "download_file"}
    /\ pc = "open"
    /\ \/ /\ pc' = "cleanup"
          /\ UNCHANGED <<files, trace>>
       \/ /\ files' = Written(files, output_path, "partial")
          /\ trace' = Append(trace, Step("opened", calls))
          /\ pc' = "write"
    /\ UNCHANGED <<cfgVars, refVars, genVars, detVars, accVars, auxVars,
                   url, file_id, result, calls>>

\* the loop over response.iter_content: either the stream or a write fails
\* part-way, or the last chunk is written and output_path is returned
WriteChunks ==
    /\ caller \in {"download_if_gdrive", "download_file"}
    /\ pc = "write"
    /\ \/ /\ pc' = "cleanup"
          /\ UNCHANGED <<files, result, trace>>
       \/ /\ files' = Written(files, output_path, "complete")
          /\ result' = output_path
          /\ trace' = Append(trace, Step("downloaded", calls))
          /\ pc' = "returned"
    /\ UNCHANGED <<cfgVars, refVars, genVars, detVars, accVars, auxVars,
                   url, file_id, calls>>

\* `except Exception`: remove output_path if it exists, raise
Cleanup ==
    /\ caller \in {"download_if_gdrive", "download_file"}
    /\ pc = "cleanup"
    /\ files' = IF Exists(files, output_path)
                THEN Remove(files, output_path)
                ELSE files
    /\ trace' = Append(trace, Step("failed", calls))
    /\ pc' = "raised"
    /\ UNCHANGED <<cfgVars, refVars, genVars, detVars, accVars, auxVars,
                   url, file_id, result, calls>>

\* the same call once more, for the same URL
CallAgain ==
    /\ caller \in {"download_if_gdrive", "download_file"}
    /\ pc \in {"returned", "raised"}
    /\ calls < MaxCalls
    /\ calls' = calls + 1
    /\ result' = <<>>
    /\ file_id' = <<>>
    /\ pc' = IF caller = "download_if_gdrive" THEN "call" ELSE "download"
    /\ UNCHANGED <<cfgVars, refVars, genVars, detVars, accVars, auxVars,
                   url, files, trace>>

(* ---------------------------------------------------------------------- *)
(* Driver: process_audio_file                                              *)
(* ---------------------------------------------------------------------- *)

\* `overlap=2.0` in the call of process_in_chunks, in centiseconds
DriverOverlap == 200

\* the frames the model may return in the driver: each dog class either
\* silent (0) or certain (MaxScore)
DriverFrameScores ==
    {[c \in DogClasses |-> IF c \in S THEN MaxScore ELSE 0] : S \in SUBSET DogClasses}

DriverScoreSeqs == UNION {[1..m -> DriverFrameScores] : m \in 0..MaxFrames}

\* `detections = detector.detect_in_waveform(audio_chunk)`
Score ==
    /\ caller = "process_audio_file"
    /\ pc = "score"
    /\ RateAccepted(sample_rate)
    /\ \E sc \in DriverScoreSeqs :
        /\ scores' = sc
        /\ detections' = DetectInWaveform(sc, confidence_threshold)
    /\ trace' = Append(trace, Step("score", Len(chunks)))
    /\ pc' = "adjust"
    /\ UNCHANGED <<cfgVars, refVars, gdVars, genVars, accVars, auxVars>>

\* faulty variant: only start_time is moved to global time
AdjustedStartOnly(detection, start_time) ==
    [detection EXCEPT !.start_time = detection.start_time + start_time]

\* `detection['start_time'] += start_time; detection['end_time'] += start_time`
Adjusted(detection, start_time) ==
    [detection EXCEPT
        !.start_time = detection.start_time + start_time,
        !.end_time = detection.end_time + start_time]

\* the adjusting loop and `all_detections.extend(detections)`; start_time is
\* the start of the chunk the loop holds, the last one yielded
AdjustAndExtend ==
    /\ caller = "process_audio_file"
    /\ pc = "adjust"
    /\ LET start_time == Last(chunks).start_time
           adjusted == [i \in 1..Len(detections) |->
                            Adjusted(detections[i], start_time)]
       IN /\ detections' = adjusted
          /\ all_detections' = all_detections \o adjusted
    /\ provenance' = provenance \o
            [i \in 1..Len(detections) |->
                [chunk |-> Len(chunks), event |-> detections[i]]]
    /\ trace' = Append(trace, Step("append", Len(chunks)))
    /\ pc' = "next"
    /\ UNCHANGED <<cfgVars, refVars, gdVars, genVars, scores, returned, auxVars>>

\* faulty variant: the merge and the return sit inside the loop body, so they
\* run after the first chunk while the generator still has chunks to yield
FinishInsideLoop ==
    /\ caller = "process_audio_file"
    /\ pc = "next"
    /\ gen = "suspended"
    /\ returned' = IF ~no_merge /\ all_detections # <<>>
                   THEN MergeDetections(all_detections, merge_gap)
                   ELSE all_detections
    /\ trace' = IF ~no_merge /\ all_detections # <<>>
                THEN Append(trace, Step("merge", Len(chunks)))
                ELSE trace
    /\ pc' = "done"
    /\ UNCHANGED <<cfgVars, refVars, gdVars, genVars, detVars, all_detections, provenance, auxVars>>

\* after the loop: `if not no_merge and all_detections:` merge; return.
\* all_detections keeps the accumulated list, returned is the value returned.
Finish ==
    /\ caller = "process_audio_file"
    /\ pc = "merge"
    /\ returned' = IF ~no_merge /\ all_detections # <<>>
                   THEN MergeDetections(all_detections, merge_gap)
                   ELSE all_detections
    /\ trace' = IF ~no_merge /\ all_detections # <<>>
                THEN Append(trace, Step("merge", Len(chunks)))
                ELSE trace
    /\ pc' = "done"
    /\ UNCHANGED <<cfgVars, refVars, gdVars, genVars, detVars, all_detections, provenance, auxVars>>

\* faulty variant: a handler around the loop body skips the failed chunk
AfterFailureSkipsChunk == "next"

\* where control goes when an exception is raised under the for loop: the
\* function has no handler, so the exception leaves process_audio_file
AfterFailure == "raised"

\* the offset at which the generator would load its next chunk
PendingOffset == IF gen = "created" THEN 0 ELSE NextOffset(offset)

\* `load_audio` raises inside the generator while loading chunk
\* Len(chunks) + 1: the generator ends and the exception comes out of next()
LoadFail ==
    /\ caller = "process_audio_file"
    /\ pc = "next"
    /\ gen \in {"created", "suspended"}
    /\ PendingOffset < total_duration
    /\ gen' = "failed"
    /\ trace' = Append(trace, Step("raise", Len(chunks) + 1))
    /\ pc' = AfterFailure
    /\ UNCHANGED <<cfgVars, refVars, gdVars, offset, chunks, detVars, accVars, auxVars>>

\* `detector.detect_in_waveform(audio_chunk)` raises on the chunk just yielded
ScoreFail ==
    /\ caller = "process_audio_file"
    /\ pc = "score"
    /\ trace' = Append(trace, Step("raise", Len(chunks)))
    /\ pc' = AfterFailure
    /\ UNCHANGED <<cfgVars, refVars, gdVars, genVars, detVars, accVars, auxVars>>

(* ---------------------------------------------------------------------- *)
(* Specification of the scheduler alone: a caller that iterates it         *)
(* ---------------------------------------------------------------------- *)

\* Scenario B of the specification: D = 125 s, C = 60 s, O = 2 s
ScenarioB == [D |-> Sec(125), C |-> Sec(60), O |-> Sec(2)]

ChunkConfigs ==
    {[D |-> Sec(d), C |-> Sec(c), O |-> Sec(o)] :
        d \in 0..MaxDuration, c \in -1..MaxChunkDuration, o \in 0..MaxOverlap}
    \cup {ScenarioB}

InitChunks ==
    /\ caller = "iterate"
    /\ \E cfg \in ChunkConfigs :
        /\ total_duration = cfg.D
        /\ chunk_duration = cfg.C
        /\ overlap = cfg.O
    /\ confidence_threshold = 0
    /\ merge_gap = 0
    /\ no_merge = TRUE
    /\ loaded_rate = ScorerRate
    /\ sample_rate = ScorerRate
    /\ gen = "created"
    /\ offset = 0
    /\ chunks = <<>>
    /\ scores = <<>>
    /\ detections = <<>>
    /\ all_detections = <<>>
    /\ provenance = <<>>
    /\ returned = <<>>
    /\ remerged = <<>>
    /\ summary = <<>>
    /\ trace = <<>>
    /\ NoRefs
    /\ NoDownload
    /\ pc = "next"

NextChunks == GenStart \/ GenResume

SpecChunks == InitChunks /\ [][NextChunks]_vars

\* the generator is resumed for as long as its caller keeps iterating
FairSpecChunks == SpecChunks /\ WF_vars(NextChunks)

ValidConfig == chunk_duration > 0 /\ 0 <= overlap /\ overlap < chunk_duration

(* ---------------------------------------------------------------------- *)
(* Specification of the event extractor alone                              *)
(* ---------------------------------------------------------------------- *)

FrameScores == [DogClasses -> 0..MaxScore]

ScoreSeqs(n) == UNION {[1..m -> FrameScores] : m \in 0..n}

InitDetect ==
    /\ caller = "detect_in_waveform"
    /\ total_duration = 0
    /\ chunk_duration = 0
    /\ overlap = 0
    /\ confidence_threshold \in 0..MaxScore
    /\ merge_gap = 0
    /\ no_merge = TRUE
    /\ loaded_rate \in SampleRates
    /\ sample_rate \in SampleRates
    /\ gen = "idle"
    /\ offset = 0
    /\ chunks = <<>>
    /\ scores \in ScoreSeqs(MaxFrames)
    /\ detections = <<>>
    /\ all_detections = <<>>
    /\ provenance = <<>>
    /\ returned = <<>>
    /\ remerged = <<>>
    /\ summary = <<>>
    /\ trace = <<>>
    /\ NoRefs
    /\ NoDownload
    /\ pc = "score"

NextDetect == CallDetect

SpecDetect == InitDetect /\ [][NextDetect]_vars

(* ---------------------------------------------------------------------- *)
(* Specification of the event merger alone                                 *)
(* ---------------------------------------------------------------------- *)

\* the instants between which the events given to the merger lie
MergeTimes == 0..3

\* the merge gaps tried
MergeGaps == {0, 1}

\* a negative gap is accepted by the code; it is tried on the shorter lists
NegativeGaps == {-1}

\* the confidences of the events given to the merger
MergeConfidences == {1, 2}

\* events with end_time > start_time; the merger is given them in any order
MergeEvents ==
    {[start_time |-> p[1], end_time |-> p[2], confidence |-> c,
      class_name |-> ClassName(i), class_index |-> i] :
        p \in {q \in MergeTimes \X MergeTimes : q[1] < q[2]},
        c \in MergeConfidences, i \in DogClasses}

EventLists(n) == UNION {[1..m -> MergeEvents] : m \in 0..n}

Event(a, b, c, i) ==
    [start_time |-> a, end_time |-> b, confidence |-> c,
     class_name |-> ClassName(i), class_index |-> i]

\* Scenario A of the specification: (0.0, 1.0, 0.5), (0.5, 1.5, 0.7),
\* (3.0, 4.0, 0.6) with merge_gap 1.0; times in centiseconds, confidences
\* in tenths
ScenarioA ==
    [detections |-> << Event(0, 100, 5, 1), Event(50, 150, 7, 2),
                       Event(300, 400, 6, 1) >>,
     merge_gap |-> 100]

\* Scenario D of the specification: (0, 1, 0.5), (1, 2, 0.6), and
\* (0, 1, 0.5), (1.0001, 2, 0.6), with merge_gap 0; times in units of
\* 0.0001 s, confidences in tenths
ScenarioDTouching ==
    [detections |-> << Event(0, 10000, 5, 1), Event(10000, 20000, 6, 2) >>,
     merge_gap |-> 0]

ScenarioDApart ==
    [detections |-> << Event(0, 10000, 5, 1), Event(10001, 20000, 6, 2) >>,
     merge_gap |-> 0]

MergeScenarios == {ScenarioA, ScenarioDTouching, ScenarioDApart}

InitMerge ==
    /\ caller = "merge_detections"
    /\ total_duration = 0
    /\ chunk_duration = 0
    /\ overlap = 0
    /\ confidence_threshold = 0
    /\ \/ /\ all_detections \in EventLists(MaxEvents)
          /\ merge_gap \in MergeGaps
       \/ /\ all_detections \in EventLists(MaxEvents - 1)
          /\ merge_gap \in NegativeGaps
       \/ \E inp \in MergeScenarios :
            /\ all_detections = inp.detections
            /\ merge_gap = inp.merge_gap
    /\ no_merge = FALSE
    /\ loaded_rate = ScorerRate
    /\ sample_rate = ScorerRate
    /\ gen = "idle"
    /\ offset = 0
    /\ chunks = <<>>
    /\ scores = <<>>
    /\ detections = <<>>
    /\ provenance = <<>>
    /\ returned = <<>>
    /\ remerged = <<>>
    /\ summary = <<>>
    /\ trace = <<>>
    /\ NoRefs
    /\ NoDownload
    /\ pc = "merge"

NextMerge == CallMerge \/ CallMergeAgain

SpecMerge == InitMerge /\ [][NextMerge]_vars

(* ---------------------------------------------------------------------- *)
(* Specification of the merger on reordered input, merge_gap >= 0          *)
(* ---------------------------------------------------------------------- *)

InitReorder ==
    /\ caller = "merge_detections"
    /\ total_duration = 0
    /\ chunk_duration = 0
    /\ overlap = 0
    /\ confidence_threshold = 0
    /\ all_detections \in EventLists(MaxEvents)
    /\ merge_gap \in MergeGaps
    /\ no_merge = FALSE
    /\ loaded_rate = ScorerRate
    /\ sample_rate = ScorerRate
    /\ gen = "idle"
    /\ offset = 0
    /\ chunks = <<>>
    /\ scores = <<>>
    /\ detections = <<>>
    /\ provenance = <<>>
    /\ returned = <<>>
    /\ remerged = <<>>
    /\ summary = <<>>
    /\ trace = <<>>
    /\ NoRefs
    /\ NoDownload
    /\ pc = "reorder"

NextReorder == CallMergeReordered

SpecReorder == InitReorder /\ [][NextReorder]_vars

(* ---------------------------------------------------------------------- *)
(* Specification of the merger on objects: all_detections keeps the values *)
(* the caller's events had before the call                                 *)
(* ---------------------------------------------------------------------- *)

InitMergeRefs ==
    /\ caller = "merge_detections"
    /\ total_duration = 0
    /\ chunk_duration = 0
    /\ overlap = 0
    /\ confidence_threshold = 0
    /\ all_detections \in EventLists(MaxEvents)
    /\ merge_gap \in MergeGaps
    /\ no_merge = FALSE
    /\ loaded_rate = ScorerRate
    /\ sample_rate = ScorerRate
    /\ gen = "idle"
    /\ offset = 0
    /\ chunks = <<>>
    /\ scores = <<>>
    /\ detections = <<>>
    /\ provenance = <<>>
    /\ returned = <<>>
    /\ remerged = <<>>
    /\ summary = <<>>
    /\ trace = <<>>
    /\ heap = all_detections
    /\ input_refs = [i \in 1..Len(all_detections) |-> i]
    /\ merged_refs = <<>>
    /\ NoDownload
    /\ pc = "merge_refs"

NextMergeRefs == CallMergeRefs

SpecMergeRefs == InitMergeRefs /\ [][NextMergeRefs]_vars

(* ---------------------------------------------------------------------- *)
(* Specification of the summary reducer alone                              *)
(* ---------------------------------------------------------------------- *)

InitSummary ==
    /\ caller = "get_detection_summary"
    /\ total_duration = 0
    /\ chunk_duration = 0
    /\ overlap = 0
    /\ confidence_threshold = 0
    /\ merge_gap = 0
    /\ no_merge = TRUE
    /\ loaded_rate = ScorerRate
    /\ sample_rate = ScorerRate
    /\ gen = "idle"
    /\ offset = 0
    /\ chunks = <<>>
    /\ scores = <<>>
    /\ detections = <<>>
    /\ all_detections \in EventLists(MaxEvents)
    /\ provenance = <<>>
    /\ returned = <<>>
    /\ remerged = <<>>
    /\ summary = <<>>
    /\ trace = <<>>
    /\ NoRefs
    /\ NoDownload
    /\ pc = "summary"

NextSummary == CallSummary

SpecSummary == InitSummary /\ [][NextSummary]_vars

(* ---------------------------------------------------------------------- *)
(* Specification of extract_file_id alone                                  *)
(* ---------------------------------------------------------------------- *)

\* the characters the file IDs tried are made of
IdAlphabet == {"a", "Z", "7", "_", "-"}

Ids(n) == UNION {[1..m -> IdAlphabet] : m \in 1..n}

\* https://drive.google.com/file/d/<ID>/view
ViewUrl(id) ==
    DriveHost \o <<"/", "f", "i", "l", "e", "/", "d", "/">> \o id \o <<"/", "v", "i", "e", "w">>

\* https://drive.google.com/file/d/<ID>/view?usp=sharing
ViewUrlWithQuery(id) ==
    ViewUrl(id) \o <<"?", "u", "s", "p", "=", "s", "h", "a", "r", "i", "n", "g">>

\* https://drive.google.com/open?id=<ID>
OpenUrl(id) == DriveHost \o <<"/", "o", "p", "e", "n", "?", "i", "d", "=">> \o id

\* https://drive.google.com/uc?id=<ID>
UcUrl(id) == DriveHost \o <<"/", "u", "c", "?", "i", "d", "=">> \o id

\* https://drive.google.com/uc?export=download&id=<ID>
UcExportUrl(id) ==
    DriveHost \o <<"/", "u", "c", "?", "e", "x", "p", "o", "r", "t", "=", "d", "o", "w", "n", "l", "o", "a", "d", "&", "i", "d", "=">>
        \o id

SupportedShapes(id) ==
    {ViewUrl(id), ViewUrlWithQuery(id), OpenUrl(id), UcUrl(id), UcExportUrl(id), id}

\* https://drive.google.com/drive/folders
FolderUrl == DriveHost \o <<"/", "d", "r", "i", "v", "e", "/", "f", "o", "l", "d", "e", "r", "s">>

\* HTTPS://DRIVE.GOOGLE.COM/file/d/a/view
UppercaseUrl ==
    <<"H", "T", "T", "P", "S", ":", "/", "/", "D", "R", "I", "V", "E", ".", "G", "O", "O", "G", "L", "E", ".", "C", "O", "M">>
        \o <<"/", "f", "i", "l", "e", "/", "d", "/", "a", "/", "v", "i", "e", "w">>

\* a local path: dog.wav
LocalPath == <<"d", "o", "g", ".", "w", "a", "v">>

\* inputs of no supported shape: the empty string, a local path, a Drive URL
\* without a file ID, an upper-case URL, text with a blank, and IDs followed
\* by a newline
OtherInputs(n) ==
    {<<>>, LocalPath, FolderUrl, UppercaseUrl, <<"a", " ", "b">>}
        \cup {id \o <<"\n">> : id \in Ids(n)}

InitExtract ==
    /\ caller = "extract_file_id"
    /\ total_duration = 0
    /\ chunk_duration = 0
    /\ overlap = 0
    /\ confidence_threshold = 0
    /\ merge_gap = 0
    /\ no_merge = TRUE
    /\ loaded_rate = ScorerRate
    /\ sample_rate = ScorerRate
    /\ gen = "idle"
    /\ offset = 0
    /\ chunks = <<>>
    /\ scores = <<>>
    /\ detections = <<>>
    /\ all_detections = <<>>
    /\ provenance = <<>>
    /\ returned = <<>>
    /\ remerged = <<>>
    /\ summary = <<>>
    /\ trace = <<>>
    /\ NoRefs
    /\ url \in UNION {SupportedShapes(id) : id \in Ids(MaxIdLen)}
                \cup OtherInputs(MaxIdLen)
    /\ file_id = <<>>
    /\ files = <<>>
    /\ result = <<>>
    /\ calls = 0
    /\ pc = "extract"

NextExtract == CallExtract

SpecExtract == InitExtract /\ [][NextExtract]_vars

(* ---------------------------------------------------------------------- *)
(* Specification of the downloads: calls for one URL, one after another    *)
(* ---------------------------------------------------------------------- *)

\* the inputs tried: a share link, an upper-case link and a folder link
\* (both without a file ID the patterns find), a local path and a bare ID
DownloadInputs ==
    {ViewUrl(<<"a">>), UcExportUrl(<<"Z", "7">>), UppercaseUrl, FolderUrl,
     LocalPath, <<"a">>}

InitDownload ==
    /\ caller \in {"download_if_gdrive", "download_file"}
    /\ total_duration = 0
    /\ chunk_duration = 0
    /\ overlap = 0
    /\ confidence_threshold = 0
    /\ merge_gap = 0
    /\ no_merge = TRUE
    /\ loaded_rate = ScorerRate
    /\ sample_rate = ScorerRate
    /\ gen = "idle"
    /\ offset = 0
    /\ chunks = <<>>
    /\ scores = <<>>
    /\ detections = <<>>
    /\ all_detections = <<>>
    /\ provenance = <<>>
    /\ returned = <<>>
    /\ remerged = <<>>
    /\ summary = <<>>
    /\ trace = <<>>
    /\ NoRefs
    /\ url \in DownloadInputs
    /\ file_id = <<>>
    /\ files \in {<<>>, Written(<<>>, output_path, "complete")}
    /\ result = <<>>
    /\ calls = 1
    /\ pc = IF caller = "download_if_gdrive" THEN "call" ELSE "download"

NextDownload ==
    \/ CallDownloadIfGdrive
    \/ DownloadExtract
    \/ Request
    \/ CheckStatus
    \/ OpenOutput
    \/ WriteChunks
    \/ Cleanup
    \/ CallAgain

SpecDownload == InitDownload /\ [][NextDownload]_vars

(* ---------------------------------------------------------------------- *)
(* Specification of the driver: process_audio_file on one recording        *)
(* ---------------------------------------------------------------------- *)

\* the recordings and the chunk sizes (larger than the overlap) tried
DriverDurations == {Sec(0), Sec(1), Sec(2)}

DriverChunkSizes == {Sec(3), Sec(4)}

InitDriver ==
    /\ caller = "process_audio_file"
    /\ total_duration \in DriverDurations
    /\ chunk_duration \in DriverChunkSizes
    /\ overlap = DriverOverlap
    /\ confidence_threshold \in {0, MaxScore}
    /\ merge_gap \in {Sec(0), Sec(1)}
    /\ no_merge \in BOOLEAN
    /\ loaded_rate \in SampleRates
    /\ sample_rate = ScorerRate
    /\ gen = "created"
    /\ offset = 0
    /\ chunks = <<>>
    /\ scores = <<>>
    /\ detections = <<>>
    /\ all_detections = <<>>
    /\ provenance = <<>>
    /\ returned = <<>>
    /\ remerged = <<>>
    /\ summary = <<>>
    /\ trace = <<>>
    /\ NoRefs
    /\ NoDownload
    /\ pc = "next"

NextDriver ==
    \/ GenStart
    \/ GenResume
    \/ Score
    \/ AdjustAndExtend
    \/ Finish
    \/ LoadFail
    \/ ScoreFail

SpecDriver == InitDriver /\ [][NextDriver]_vars

(* ---------------------------------------------------------------------- *)
(* Claims about the chunk scheduler (checked under SpecChunks)             *)
(* ---------------------------------------------------------------------- *)

ChunkIdx == 1..Len(chunks)

\* C1: for D > 0 and 0 <= O < C the yielded intervals cover [0, D) exactly:
\* the first chunk starts at 0, every chunk lies inside [0, D], no chunk
\* starts after the end of the one before it, and once the generator has
\* ended the last chunk ends at D and every instant of [0, D) is in a chunk.
C1_Coverage ==
    (ValidConfig /\ total_duration > 0) =>
        /\ chunks # <<>> => chunks[1].start_time = 0
        /\ \A i \in ChunkIdx :
            /\ 0 <= chunks[i].start_time
            /\ chunks[i].start_time < chunks[i].end_time
            /\ chunks[i].end_time <= total_duration
        /\ \A i \in ChunkIdx :
            i > 1 => chunks[i].start_time <= chunks[i - 1].end_time
        /\ gen = "finished" =>
            /\ chunks # <<>>
            /\ Last(chunks).end_time = total_duration
            /\ \A t \in 0..(total_duration - 1) :
                \E i \in ChunkIdx :
                    chunks[i].start_time <= t /\ t < chunks[i].end_time

C1_Witness ==
    /\ ValidConfig
    /\ overlap > 0
    /\ gen = "finished"
    /\ Len(chunks) >= 3
    /\ Last(chunks).end_time - Last(chunks).start_time < chunk_duration

\* C2: with chunk_duration <= 0 or overlap >= chunk_duration the scheduler
\* fails before a chunk is yielded.
C2_FailFast == ~ValidConfig => chunks = <<>>

\* C3: for D >= 0 and 0 <= O < C the generator ends after finitely many
\* chunks: every resumption that yields again has moved the offset forward by
\* C - O > 0, the generator ends as soon as the next start is >= D, and it
\* does end.
C3_Terminates ==
    /\ [][(ValidConfig /\ gen = "suspended") =>
            /\ gen' = "suspended" =>
                /\ offset' = offset + chunk_duration - overlap
                /\ offset' > offset
                /\ Len(chunks') = Len(chunks) + 1
            /\ (offset + chunk_duration - overlap >= total_duration)
                    => gen' = "finished"]_vars
    /\ (ValidConfig /\ total_duration >= 0) ~> (gen = "finished")

C3_Witness ==
    /\ ValidConfig
    /\ gen = "finished"
    /\ Len(chunks) >= 3

\* C4: consecutive chunks overlap by exactly O, a truncated chunk included.
C4_ExactOverlap ==
    ValidConfig =>
        \A i \in ChunkIdx :
            i > 1 => chunks[i - 1].end_time - chunks[i].start_time = overlap

\* C5: no chunk ends after D, every chunk lasts min(C, D - start), and the
\* last chunk of a finished generator ends exactly at D.
C5_Truncated ==
    /\ \A i \in ChunkIdx :
        /\ chunks[i].end_time <= total_duration
        /\ chunks[i].end_time - chunks[i].start_time
             = Min(chunk_duration, total_duration - chunks[i].start_time)
    /\ (ValidConfig /\ gen = "finished" /\ chunks # <<>>) =>
            Last(chunks).end_time = total_duration

C5_Witness ==
    /\ ValidConfig
    /\ gen = "finished"
    /\ Len(chunks) >= 2
    /\ Last(chunks).end_time = total_duration
    /\ Last(chunks).start_time + chunk_duration > total_duration

\* C6: the k-th chunk (from 0) starts at k * (C - O); a chunk is yielded
\* exactly for the starts below D; D = 125, C = 60, O = 2 gives the chunks
\* [0, 60), [58, 118), [116, 125).
C6_StepRule ==
    /\ \A i \in ChunkIdx :
        /\ chunks[i].start_time = (i - 1) * (chunk_duration - overlap)
        /\ chunks[i].start_time < total_duration
    /\ (ValidConfig /\ gen = "finished") =>
            Len(chunks) * (chunk_duration - overlap) >= total_duration
    /\ ( /\ total_duration = ScenarioB.D
         /\ chunk_duration = ScenarioB.C
         /\ overlap = ScenarioB.O
         /\ gen = "finished" ) =>
            chunks = << [start_time |-> Sec(0), end_time |-> Sec(60)],
                        [start_time |-> Sec(58), end_time |-> Sec(118)],
                        [start_time |-> Sec(116), end_time |-> Sec(125)] >>

C6_Witness ==
    /\ total_duration = ScenarioB.D
    /\ chunk_duration = ScenarioB.C
    /\ overlap = ScenarioB.O
    /\ gen = "finished"
    /\ Len(chunks) = 3

\* C24: for 0 <= O < C every chunk but the last lasts exactly C.
C24_FixedDuration ==
    ValidConfig =>
        \A i \in ChunkIdx :
            i < Len(chunks) =>
                chunks[i].end_time - chunks[i].start_time = chunk_duration

(* ---------------------------------------------------------------------- *)
(* Claims about the event extractor (checked under SpecDetect)             *)
(* ---------------------------------------------------------------------- *)

\* the largest probability of a dog class in a frame
MaxTargetProbability(frame_scores) ==
    CHOOSE m \in {frame_scores[c] : c \in DogClasses} :
        \A c \in DogClasses : frame_scores[c] <= m

\* the frames (counted from 0) whose largest dog probability meets the threshold
HotFrames ==
    {k - 1 : k \in {j \in 1..Len(scores) :
        MaxTargetProbability(scores[j]) >= confidence_threshold}}

\* C8: a frame yields exactly one event when its largest dog probability is
\* >= the threshold and none otherwise: the events returned are, in frame
\* order, exactly those of the frames that meet the threshold.
C8_OneEventPerHotFrame ==
    pc = "done" =>
        /\ Len(detections) = Cardinality(HotFrames)
        /\ {detections[i].start_time : i \in 1..Len(detections)}
             = {f * HopDuration : f \in HotFrames}
        /\ \A i \in 1..Len(detections) :
            i > 1 => detections[i - 1].start_time < detections[i].start_time

C8_Witness ==
    /\ pc = "done"
    /\ Len(scores) = 2
    /\ confidence_threshold > 0
    /\ MaxTargetProbability(scores[1]) < confidence_threshold
    /\ MaxTargetProbability(scores[2]) = confidence_threshold
    /\ Len(detections) = 1

\* the first dog class, in enumeration order, that has the largest probability
FirstBest(frame_scores) ==
    DogClassIndices[
        CHOOSE k \in 1..Len(DogClassIndices) :
            /\ frame_scores[DogClassIndices[k]] = MaxTargetProbability(frame_scores)
            /\ \A j \in 1..(k - 1) :
                frame_scores[DogClassIndices[j]] < MaxTargetProbability(frame_scores)]

\* C9: every event carries the index, name and probability of the dog class
\* with the largest probability in its frame, the first such class in
\* dog_class_indices on a tie; for every threshold, 0 included.
C9_BestClass ==
    pc = "done" =>
        \A i \in 1..Len(detections) :
            LET frame_scores == scores[(detections[i].start_time \div HopDuration) + 1] IN
            /\ detections[i].class_index = FirstBest(frame_scores)
            /\ detections[i].class_name = ClassName(FirstBest(frame_scores))
            /\ detections[i].confidence = frame_scores[FirstBest(frame_scores)]

(* ---------------------------------------------------------------------- *)
(* Claims about the event merger (checked under SpecMerge)                 *)
(* ---------------------------------------------------------------------- *)

\* C10: for merge_gap >= 0 the episodes returned are sorted by start_time
\* and each starts more than merge_gap after the end of the one before it.
C10_SortedAndSeparated ==
    (pc = "done" /\ merge_gap >= 0) =>
        \A i \in 1..Len(returned) :
            i > 1 =>
                /\ returned[i - 1].start_time <= returned[i].start_time
                /\ returned[i].start_time - returned[i - 1].end_time > merge_gap

C10_Witness ==
    /\ pc = "done"
    /\ Len(all_detections) = 3
    /\ all_detections[1].start_time > all_detections[2].start_time
    /\ Len(returned) = 2
    /\ returned[2].start_time - returned[1].end_time = merge_gap + 1

\* the call of merge_detections has returned
Merged == caller = "merge_detections" /\ pc = "done"

InputIdx == 1..Len(all_detections)

\* event j comes before event i in start_time order (input order on a tie)
Earlier(j, i) ==
    \/ all_detections[j].start_time < all_detections[i].start_time
    \/ /\ all_detections[j].start_time = all_detections[i].start_time
       /\ j < i

\* the largest of a non-empty finite set of integers, and the smallest
MaxOf(S) == CHOOSE m \in S : \A x \in S : x <= m

MinOf(S) == CHOOSE m \in S : \A x \in S : m <= x

\* event i is the first in start_time order
IsFirst(i) == \A j \in InputIdx : ~Earlier(j, i)

\* the largest end_time among the events before event i in start_time order
RunningEndBefore(i) ==
    MaxOf({all_detections[j].end_time : j \in {x \in InputIdx : Earlier(x, i)}})

\* event i starts more than merge_gap after everything before it has ended
StartsEpisode(i) ==
    IsFirst(i) \/ all_detections[i].start_time - RunningEndBefore(i) > merge_gap

\* C11: merging the merged list again with the same merge_gap >= 0 returns
\* the same list: same episodes, same order, same fields.
C11_Idempotent ==
    (caller = "merge_detections" /\ pc = "remerged" /\ merge_gap >= 0) =>
        remerged = returned

C11_Witness ==
    /\ caller = "merge_detections"
    /\ pc = "remerged"
    /\ merge_gap >= 0
    /\ Len(all_detections) = 3
    /\ all_detections[1].start_time > all_detections[2].start_time
    /\ Len(returned) = 2
    /\ remerged = returned

\* C12: the gap test is against the running end of the current episode: for
\* merge_gap >= 0 the result is a single episode exactly when every event but
\* the first starts within merge_gap of the largest end_time of the events
\* before it, however far the last event is from the end of the first; the
\* episode then spans from the smallest start_time to the largest end_time.
C12_ChainMergesTransitively ==
    (Merged /\ merge_gap >= 0 /\ all_detections # <<>>) =>
        /\ (Len(returned) = 1) <=> (\A i \in InputIdx : IsFirst(i) \/ ~StartsEpisode(i))
        /\ Len(returned) = 1 =>
            /\ returned[1].start_time =
                 MinOf({all_detections[i].start_time : i \in InputIdx})
            /\ returned[1].end_time =
                 MaxOf({all_detections[i].end_time : i \in InputIdx})

C12_Witness ==
    /\ Merged
    /\ merge_gap = 0
    /\ Len(all_detections) = 3
    /\ Len(returned) = 1
    /\ \E i \in InputIdx : \E j \in InputIdx :
        /\ IsFirst(i)
        /\ all_detections[j].start_time - all_detections[i].end_time > merge_gap

\* the input events that lie in episode k of the result
Members(k) ==
    {i \in InputIdx :
        /\ returned[k].start_time <= all_detections[i].start_time
        /\ all_detections[i].end_time <= returned[k].end_time}

\* the first member of episode k in start_time order
FirstMember(k) ==
    CHOOSE i \in Members(k) : \A j \in Members(k) : ~Earlier(j, i)

\* C13: for merge_gap >= 0 every episode has the start_time, class name and
\* class index of its first event, the largest end_time and the largest
\* confidence of the events merged into it; Scenario A gives
\* (0.0, 1.5, 0.7) and (3.0, 4.0, 0.6), each with the label of its first event.
C13_AbsorbKeepsFirstLabel ==
    /\ (Merged /\ merge_gap >= 0) =>
        \A k \in 1..Len(returned) :
            /\ Members(k) # {}
            /\ returned[k].start_time = all_detections[FirstMember(k)].start_time
            /\ returned[k].class_name = all_detections[FirstMember(k)].class_name
            /\ returned[k].class_index = all_detections[FirstMember(k)].class_index
            /\ returned[k].end_time =
                 MaxOf({all_detections[i].end_time : i \in Members(k)})
            /\ returned[k].confidence =
                 MaxOf({all_detections[i].confidence : i \in Members(k)})
    /\ (Merged /\ all_detections = ScenarioA.detections
               /\ merge_gap = ScenarioA.merge_gap) =>
        returned = << Event(0, 150, 7, 1), Event(300, 400, 6, 1) >>

C13_Witness ==
    /\ Merged
    /\ all_detections = ScenarioA.detections
    /\ merge_gap = ScenarioA.merge_gap
    /\ Len(returned) = 2
    /\ returned[1].confidence = 7
    /\ returned[1].class_index = 1

\* C14: the gap test is inclusive: for merge_gap >= 0 an event starts a new
\* episode exactly when its start_time minus the running end is > merge_gap,
\* and is absorbed otherwise; with merge_gap 0, (0, 1), (1, 2) give (0, 2)
\* and (0, 1), (1.0001, 2) stay two episodes.
C14_InclusiveGapTest ==
    /\ (Merged /\ merge_gap >= 0) =>
        /\ Len(returned) = Cardinality({i \in InputIdx : StartsEpisode(i)})
        /\ {returned[k].start_time : k \in 1..Len(returned)}
             = {all_detections[i].start_time : i \in {x \in InputIdx : StartsEpisode(x)}}
    /\ (Merged /\ all_detections = ScenarioDTouching.detections
               /\ merge_gap = ScenarioDTouching.merge_gap) =>
        returned = << Event(0, 20000, 6, 1) >>
    /\ (Merged /\ all_detections = ScenarioDApart.detections
               /\ merge_gap = ScenarioDApart.merge_gap) =>
        returned = ScenarioDApart.detections

C14_Witness ==
    /\ Merged
    /\ all_detections = ScenarioDTouching.detections
    /\ merge_gap = 0
    /\ Len(returned) = 1

\* C15: merge_detections does not return an episode list when merge_gap is
\* negative.
C15_NegativeGapRejected == merge_gap < 0 => ~Merged

\* C16: merge_detections on an empty list returns an empty list, for every
\* merge_gap, and the call is never refused.
C16_EmptyInEmptyOut ==
    (caller = "merge_detections" /\ all_detections = <<>>) =>
        /\ pc = "merge" => ENABLED CallMerge
        /\ Merged => returned = <<>>

C16_Witness ==
    /\ Merged
    /\ all_detections = <<>>
    /\ merge_gap < 0
    /\ returned = <<>>

\* the episodes of the result in which input event i lies
EpisodesOf(i) == {k \in 1..Len(returned) : i \in Members(k)}

\* C27: for a non-empty list and merge_gap >= 0 no detection is lost: every
\* input event lies inside exactly one episode, every episode starts at the
\* smallest start_time, ends at the largest end_time and has the largest
\* confidence of the events inside it, and there are at least one and at
\* most as many episodes as events.
C27_NoDetectionLost ==
    (Merged /\ merge_gap >= 0 /\ all_detections # <<>>) =>
        /\ 1 <= Len(returned)
        /\ Len(returned) <= Len(all_detections)
        /\ \A i \in InputIdx : Cardinality(EpisodesOf(i)) = 1
        /\ \A k \in 1..Len(returned) :
            /\ Members(k) # {}
            /\ returned[k].start_time =
                 MinOf({all_detections[i].start_time : i \in Members(k)})
            /\ returned[k].end_time =
                 MaxOf({all_detections[i].end_time : i \in Members(k)})
            /\ returned[k].confidence =
                 MaxOf({all_detections[i].confidence : i \in Members(k)})

C27_Witness ==
    /\ Merged
    /\ Len(all_detections) = 3
    /\ all_detections[1].start_time > all_detections[3].start_time
    /\ Len(returned) = 2
    /\ Cardinality(Members(1)) = 2
    /\ returned[1].confidence > all_detections[3].confidence

\* the (start_time, end_time, confidence) triples of a list of episodes
Triples(episodes) ==
    [k \in 1..Len(episodes) |->
        <<episodes[k].start_time, episodes[k].end_time, episodes[k].confidence>>]

\* the input events that start where episode k starts
StartersOf(k) ==
    {i \in InputIdx : all_detections[i].start_time = returned[k].start_time}

\* C28: for merge_gap >= 0 and events with end_time > start_time the triples
\* (start_time, end_time, confidence) of the result are the same for every
\* order of the input; the label of an episode differs between two orders
\* only when several events start at the episode's start_time.
C28_OrderIndependent ==
    (Merged /\ merge_gap >= 0) =>
        \A i \in 1..Len(remerged) :
            /\ Triples(remerged[i]) = Triples(returned)
            /\ \A k \in 1..Len(returned) :
                (\/ remerged[i][k].class_index # returned[k].class_index
                 \/ remerged[i][k].class_name # returned[k].class_name)
                    => Cardinality(StartersOf(k)) > 1

C28_Witness ==
    /\ Merged
    /\ Len(all_detections) = 3
    /\ Len(returned) = 2
    /\ \E i \in 1..Len(remerged) :
        /\ Triples(remerged[i]) = Triples(returned)
        /\ remerged[i][1].class_index # returned[1].class_index

\* C26: merge_detections leaves its input unchanged: after the call the
\* caller's list names the same objects in the same order and every one of
\* them has the fields it had before; every episode returned is an object
\* of its own, none of them an object of the caller's list; the episodes
\* are those the merge computes from the values.
C26_InputUnchanged ==
    (caller = "merge_detections" /\ pc = "done") =>
        /\ input_refs = [i \in InputIdx |-> i]
        /\ \A i \in InputIdx : heap[input_refs[i]] = all_detections[i]
        /\ \A k \in 1..Len(merged_refs) :
            /\ merged_refs[k] \notin {input_refs[i] : i \in InputIdx}
            /\ \A j \in 1..Len(merged_refs) :
                j # k => merged_refs[j] # merged_refs[k]
        /\ returned = MergeDetections(all_detections, merge_gap)

C26_Witness ==
    /\ caller = "merge_detections"
    /\ pc = "done"
    /\ Len(input_refs) = 3
    /\ Len(merged_refs) = 1
    /\ heap[merged_refs[1]].end_time > heap[input_refs[1]].end_time
    /\ heap[merged_refs[1]].start_time = heap[input_refs[1]].start_time
    /\ heap[input_refs[1]] = all_detections[1]

(* ---------------------------------------------------------------------- *)
(* Claims about the summary reducer (checked under SpecSummary)            *)
(* ---------------------------------------------------------------------- *)

Summarised == caller = "get_detection_summary" /\ pc = "done"

\* the fields of the summary of a non-empty list
SummaryFields ==
    {"total_events", "total_duration", "avg_duration", "avg_confidence",
     "max_confidence", "min_confidence"}

\* C17: the summary of an empty list has every field of the summary of a
\* non-empty list, and every one of them is zero.
C17_EmptySummaryAllZero ==
    (Summarised /\ all_detections = <<>>) =>
        /\ DOMAIN summary = SummaryFields
        /\ \A f \in DOMAIN summary : summary[f] = 0

\* the sum of the durations of the events at the positions in S
RECURSIVE TotalDuration(_)
TotalDuration(S) ==
    IF S = {} THEN 0
    ELSE LET i == CHOOSE x \in S : TRUE IN
         (all_detections[i].end_time - all_detections[i].start_time)
            + TotalDuration(S \ {i})

\* C18: for a non-empty list total_events is the number of episodes,
\* total_duration the sum of end_time - start_time, max_confidence and
\* min_confidence the largest and the smallest confidence, and
\* avg_duration * total_events = total_duration.
C18_SummaryConsistent ==
    (Summarised /\ all_detections # <<>>) =>
        /\ DOMAIN summary = SummaryFields
        /\ summary.total_events = Len(all_detections)
        /\ summary.total_duration = TotalDuration(InputIdx)
        /\ summary.max_confidence =
             MaxOf({all_detections[i].confidence : i \in InputIdx})
        /\ summary.min_confidence =
             MinOf({all_detections[i].confidence : i \in InputIdx})
        /\ summary.avg_duration.den # 0
        /\ summary.avg_duration.num * summary.total_events
             = summary.total_duration * summary.avg_duration.den

C18_Witness ==
    /\ Summarised
    /\ Len(all_detections) = 3
    /\ summary.total_events = 3
    /\ summary.total_duration = 6
    /\ summary.max_confidence = 2
    /\ summary.min_confidence = 1

(* ---------------------------------------------------------------------- *)
(* Claims about the file IDs (checked under SpecExtract)                   *)
(* ---------------------------------------------------------------------- *)

Extracted == caller = "extract_file_id" /\ pc = "done"

\* no pattern of DRIVE_URL_PATTERNS is found in the input
NoPatternFound ==
    \A k \in 1..Len(DRIVE_URL_PATTERNS) :
        \A p \in 1..Len(url) : ~MatchesAt(DRIVE_URL_PATTERNS[k], url, p)

\* the input is a file ID: one or more letters, digits, '_' or '-'
IsBareId == url # <<>> /\ \A i \in 1..Len(url) : url[i] \in IdChars

\* C23: for every file ID and every supported shape of input built from it
\* extract_file_id returns exactly the ID, and for an input in which no
\* pattern is found and which is not a bare ID it returns None.
C23_ExtractFileId ==
    Extracted =>
        /\ \A id \in Ids(MaxIdLen) : url \in SupportedShapes(id) => file_id = id
        /\ (NoPatternFound /\ ~IsBareId) => file_id = NoneName

\* every supported shape gives the ID
SupportedShapesGiveId ==
    Extracted =>
        \A id \in Ids(MaxIdLen) : url \in SupportedShapes(id) => file_id = id

(* ---------------------------------------------------------------------- *)
(* Claims about the driver (checked under SpecDriver)                      *)
(* ---------------------------------------------------------------------- *)

\* C7: every event extracted from chunk k is in the accumulated list with
\* the start of chunk k added once to its start_time and to its end_time, and
\* with its confidence, class name and class index unchanged; the events of
\* the chunk just handled are the tail of the accumulated list.
C7_GlobalTimestamps ==
    /\ Len(all_detections) = Len(provenance)
    /\ \A i \in 1..Len(provenance) :
        LET k == provenance[i].chunk
            local == provenance[i].event
        IN /\ k \in 1..Len(chunks)
           /\ local.start_time \in {f * HopDuration : f \in 0..(MaxFrames - 1)}
           /\ local.end_time = local.start_time + FrameDuration
           /\ all_detections[i] =
                [start_time |-> chunks[k].start_time + local.start_time,
                 end_time |-> chunks[k].start_time + local.end_time,
                 confidence |-> local.confidence,
                 class_name |-> local.class_name,
                 class_index |-> local.class_index]
    /\ \A i \in 1..Len(provenance) :
        i > 1 => provenance[i - 1].chunk <= provenance[i].chunk
    /\ (caller = "process_audio_file" /\ pc = "next" /\ chunks # <<>>) =>
        /\ Len(detections) <= Len(all_detections)
        /\ \A j \in 1..Len(detections) :
            LET i == Len(all_detections) - Len(detections) + j IN
            /\ all_detections[i] = detections[j]
            /\ provenance[i].chunk = Len(chunks)
        /\ Len(detections) =
             Cardinality({i \in 1..Len(provenance) : provenance[i].chunk = Len(chunks)})

\* the positions of the trace and the steps of one kind
TracePos == 1..Len(trace)

StepsOf(op) == {p \in TracePos : trace[p].op = op}

\* C19: chunks are processed strictly in the order the scheduler yields them:
\* chunk k+1 is yielded only directly after the events of chunk k were
\* appended, each chunk is scored directly after its yield and appended
\* directly after its scoring, and merge_detections is called at most once,
\* as the last step, when the generator is exhausted and every chunk yielded
\* has been appended.
C19_ChunksInOrderMergeLast ==
    caller = "process_audio_file" =>
        /\ \A p \in StepsOf("yield") :
            /\ trace[p].chunk = Cardinality({q \in StepsOf("yield") : q < p}) + 1
            /\ IF trace[p].chunk = 1
               THEN p = 1
               ELSE trace[p - 1] = Step("append", trace[p].chunk - 1)
        /\ \A p \in StepsOf("score") :
            p > 1 /\ trace[p - 1] = Step("yield", trace[p].chunk)
        /\ \A p \in StepsOf("append") :
            p > 1 /\ trace[p - 1] = Step("score", trace[p].chunk)
        /\ Cardinality(StepsOf("merge")) <= 1
        /\ \A p \in StepsOf("merge") :
            /\ p = Len(trace)
            /\ gen = "finished"
            /\ \A k \in 1..Len(chunks) :
                \E q \in StepsOf("append") : q < p /\ trace[q].chunk = k

C19_Witness ==
    /\ caller = "process_audio_file"
    /\ pc = "done"
    /\ trace = << Step("yield", 1), Step("score", 1), Step("append", 1),
                  Step("yield", 2), Step("score", 2), Step("append", 2),
                  Step("merge", 2) >>

\* C20: when loading or scoring fails on chunk k the failure leaves
\* process_audio_file: it is the last step taken, so no chunk is scored
\* after it and merge_detections is not called, and the function never
\* returns a list.
C20_FailureIsFatal ==
    \A p \in StepsOf("raise") :
        /\ p = Len(trace)
        /\ pc = "raised"
        /\ pc # "done"
        /\ returned = <<>>
        /\ StepsOf("merge") = {}
        /\ \A q \in StepsOf("score") : trace[q].chunk <= trace[p].chunk
        /\ ~ ENABLED NextDriver

\* scoring fails on the second chunk after the first chunk produced events
C20_Witness ==
    /\ pc = "raised"
    /\ all_detections # <<>>
    /\ Last(trace) = Step("raise", 2)
    /\ trace[Len(trace) - 1] = Step("yield", 2)

\* C21: a recording of duration zero is handled without error: the scheduler
\* yields no chunk, nothing is scored, nothing fails, the run goes on to
\* return the empty list (merged or not), and the summary of the returned
\* list has only zeros.
C21_ZeroDurationHandled ==
    (caller = "process_audio_file" /\ total_duration = 0) =>
        /\ chunks = <<>>
        /\ trace = <<>>
        /\ all_detections = <<>>
        /\ returned = <<>>
        /\ pc \in {"next", "merge", "done"}
        /\ pc # "done" => ENABLED NextDriver
        /\ pc = "done" =>
            /\ gen = "finished"
            /\ GetDetectionSummary(returned).total_events = 0
            /\ \A f \in DOMAIN GetDetectionSummary(returned) :
                GetDetectionSummary(returned)[f] = 0

C21_Witness ==
    /\ caller = "process_audio_file"
    /\ total_duration = 0
    /\ ~no_merge
    /\ pc = "done"
    /\ returned = <<>>

\* C22: a buffer loaded at a rate other than the scorer's is never given to
\* the model: no chunk of it is scored and no event comes from it.
C22_MismatchNeverScored ==
    (caller = "process_audio_file" /\ loaded_rate # ScorerRate) =>
        /\ StepsOf("score") = {}
        /\ all_detections = <<>>

\* every event of the list ends after it starts
AllPositive(events) ==
    \A i \in 1..Len(events) : events[i].end_time > events[i].start_time

\* C25: every event has end_time > start_time at every stage: as returned by
\* detect_in_waveform (frame i spans from i * hop to i * hop + frame_duration),
\* after the chunk offset was added, in the accumulated list and in every
\* episode returned.
C25_EndAfterStart ==
    caller = "process_audio_file" =>
        /\ AllPositive(detections)
        /\ pc = "adjust" =>
            \A i \in 1..Len(detections) :
                /\ detections[i].start_time \in
                     {f * HopDuration : f \in 0..(MaxFrames - 1)}
                /\ detections[i].end_time = detections[i].start_time + FrameDuration
        /\ AllPositive(all_detections)
        /\ AllPositive(returned)

C25_Witness ==
    /\ caller = "process_audio_file"
    /\ pc = "done"
    /\ ~no_merge
    /\ Len(all_detections) >= 3
    /\ Len(returned) = 1
    /\ returned[1].end_time - returned[1].start_time > FrameDuration

C7_Witness ==
    /\ pc = "done"
    /\ Len(chunks) = 2
    /\ \E i \in 1..Len(provenance) : provenance[i].chunk = 1
    /\ \E i \in 1..Len(provenance) :
        /\ provenance[i].chunk = 2
        /\ provenance[i].event.start_time = HopDuration
        /\ all_detections[i].start_time = Sec(1) + HopDuration

(* ---------------------------------------------------------------------- *)
(* Claims about the downloads (checked under SpecDownload)                 *)
(* ---------------------------------------------------------------------- *)

\* the steps of the call in progress
StepsOfCall(op) == {p \in StepsOf(op) : trace[p].chunk = calls}

LastStepIs(op) == trace # <<>> /\ Last(trace) = Step(op, calls)

\* C29: a download that fails after the file ID was extracted raises and
\* leaves no file at output_path; a file is partial only while a download
\* is writing or cleaning up, so the file the "already downloaded" shortcut
\* returns is a complete one, in every sequence of calls for the same URL;
\* when no file ID can be extracted the error comes before any request of
\* that call and the file system stays as it was.
C29_FailedDownloadLeavesNoFile ==
    /\ [](caller \in {"download_if_gdrive", "download_file"} =>
            /\ (pc = "raised" /\ LastStepIs("failed")) =>
                    output_path \notin DOMAIN files
            /\ pc \notin {"write", "cleanup"} =>
                    \A path \in DOMAIN files : files[path] = "complete"
            /\ (pc = "returned" /\ LastStepIs("shortcut")) =>
                    /\ result \in DOMAIN files
                    /\ files[result] = "complete"
            /\ (pc = "raised" /\ LastStepIs("value_error")) =>
                    /\ StepsOfCall("request") = {}
                    /\ StepsOfCall("opened") = {})
    /\ [][(caller \in {"download_if_gdrive", "download_file"}
             /\ pc = "download" /\ pc' = "raised") =>
                /\ files' = files
                /\ file_id' = NoneName]_vars

C29_Witness ==
    /\ caller = "download_if_gdrive"
    /\ pc = "returned"
    /\ calls = 2
    /\ trace = << Step("start", 1), Step("request", 1), Step("opened", 1),
                  Step("failed", 1),
                  Step("start", 2), Step("request", 2), Step("opened", 2),
                  Step("downloaded", 2) >>
    /\ files[result] = "complete"

====
